---- MODULE Spec2Model ----
(***************************************************************************)
(* Model of aten/src/ATen/native/sparse/SparseBlas.cpp: the dispatch and   *)
(* validation layer of addmv, triangular_solve and sampled_addmm for       *)
(* sparse CSR operands.                                                    *)
(*                                                                         *)
(* A state is one call: the operation, its arguments as they were before   *)
(* the call (args), the tensors the call can write as they are now (mem),  *)
(* the outcome (status) and the trace of ATen primitives and backend       *)
(* kernels the call has invoked (calls).  The functions of the file are    *)
(* operators from the arguments to that outcome.                           *)
(***************************************************************************)
EXTENDS Integers, Sequences, FiniteSets

VARIABLES pc, op, args, mem, status, calls

vars == <<pc, op, args, mem, status, calls>>

(***************************************************************************)
(* Bounds of the model.                                                    *)
(***************************************************************************)
\* rows and columns of every matrix, length of every vector: 1..MaxDim
MaxDim == 2
\* the scalars beta and alpha range over 0..MaxScalar
MaxScalar == 2

(***************************************************************************)
(* Element values: finite non-negative integers, NaN and +Inf, with the    *)
(* IEEE rules the claims about NaN/Inf propagation depend on.              *)
(***************************************************************************)
Fin(n) == [k |-> "fin", n |-> n]
NaN == [k |-> "nan", n |-> 0]
Inf == [k |-> "inf", n |-> 0]

Mul(a, b) ==
  IF a.k = "nan" \/ b.k = "nan" THEN NaN
  ELSE IF a.k = "inf" THEN (IF b = Fin(0) THEN NaN ELSE Inf)
  ELSE IF b.k = "inf" THEN (IF a = Fin(0) THEN NaN ELSE Inf)
  ELSE Fin(a.n * b.n)

Add(a, b) ==
  IF a.k = "nan" \/ b.k = "nan" THEN NaN
  ELSE IF a.k = "inf" \/ b.k = "inf" THEN Inf
  ELSE Fin(a.n + b.n)

RECURSIVE SumSeq(_)
SumSeq(s) == IF s = <<>> THEN Fin(0) ELSE Add(s[1], SumSeq(Tail(s)))

RECURSIVE Prod(_)
Prod(s) == IF s = <<>> THEN 1 ELSE s[1] * Prod(Tail(s))

RECURSIVE SortedSeq(_)
SortedSeq(S) ==
  IF S = {} THEN <<>>
  ELSE LET x == CHOOSE y \in S : \A z \in S : y <= z
       IN <<x>> \o SortedSeq(S \ {x})

(***************************************************************************)
(* Tensors.  A strided tensor is a record of layout, dtype, device, sizes  *)
(* and its elements in row-major order.  A CSR tensor carries crow (row    *)
(* offsets, length rows + 1), col (column of each stored entry, counted    *)
(* from 1) and vals (the stored values).                                   *)
(***************************************************************************)
Dim(t) == Len(t.sizes)
Numel(sizes) == Prod(sizes)
nnz(t) == Len(t.vals)

Dense(dtype, device, sizes, vals) ==
  [layout |-> "Strided", dtype |-> dtype, device |-> device,
   sizes |-> sizes, vals |-> vals]

Csr(dtype, device, sizes, crow, col, vals) ==
  [layout |-> "SparseCsr", dtype |-> dtype, device |-> device,
   sizes |-> sizes, crow |-> crow, col |-> col, vals |-> vals]

\* element (i, j) of a strided matrix
At(t, i, j) == t.vals[(i - 1) * t.sizes[2] + j]

\* the row of the p-th stored entry of a CSR matrix
RowOf(t, p) == CHOOSE i \in 1..(Len(t.crow) - 1) : t.crow[i] < p /\ p <= t.crow[i + 1]

\* the stored coordinates of a CSR matrix
Coords(t) == {<<RowOf(t, p), t.col[p]>> : p \in 1..Len(t.col)}

(***************************************************************************)
(* ATen primitives the file calls (ExpandUtils.h, Resize.h, the ops        *)
(* headers).  Each returns the tensor it leaves in its output.             *)
(***************************************************************************)
\* whether a tensor of these sizes broadcasts to the 1-D shape target
is_expandable_to(sizes, target) ==
  \/ Len(sizes) = 0
  \/ Len(sizes) = 1 /\ (sizes[1] = 1 \/ sizes[1] = target[1])

\* a view of t broadcast to the 1-D shape target
expand_size(t, target) ==
  [t EXCEPT !.sizes = target,
            !.vals = [i \in 1..target[1] |->
                        IF Numel(t.sizes) = 1 THEN t.vals[1] ELSE t.vals[i]]]

\* resize_output: a tensor of another shape is resized; the elements it
\* had stay, the new ones are uninitialised memory (g)
resize_output(t, sizes, g) ==
  IF t.sizes = sizes THEN t
  ELSE [t EXCEPT !.sizes = sizes,
                 !.vals = [i \in 1..Numel(sizes) |->
                             IF i <= Len(t.vals) THEN t.vals[i] ELSE g]]

\* copy_ between strided tensors of one shape: the elements of src
copy_(t, src) == [t EXCEPT !.vals = src.vals]

\* zero_: every element becomes 0
zero_(t) == [t EXCEPT !.vals = [i \in 1..Len(t.vals) |-> Fin(0)]]

\* scalar_tensor(s, dtype, layout, device, pin_memory): a 0-dim tensor
\* holding s converted to dtype (the scalars of the model are integers,
\* which both dtypes hold exactly)
scalar_tensor(s, dtype, device) == Dense(dtype, device, <<>>, <<Fin(s)>>)

\* mul_out(out, a, b) with b a 0-dim tensor: out takes the broadcast shape
\* of a and b, which is a's, and holds a * b elementwise
mul_out(out, a, b) ==
  [out EXCEPT !.sizes = a.sizes,
              !.vals = [i \in 1..Len(a.vals) |-> Mul(a.vals[i], b.vals[1])]]

\* (mat @ vec)[i] for a CSR mat
MatVec(mat, vec, i) ==
  SumSeq([q \in 1..(mat.crow[i + 1] - mat.crow[i]) |->
            Mul(mat.vals[mat.crow[i] + q], vec.vals[mat.col[mat.crow[i] + q]])])

\* The backend kernel sparse::impl::cpu::addmv_out_sparse_csr:
\* out <- beta * out + alpha * (mat @ vec), out not read when beta = 0.
\* It writes mat.size(0) elements; into an out of another size that is a
\* write outside the buffer, whose outcome is any value (g).
impl_cpu_addmv_out_sparse_csr(mat, vec, beta, alpha, out, g) ==
  IF out.sizes = <<mat.sizes[1]>>
  THEN [out EXCEPT !.vals = [i \in 1..mat.sizes[1] |->
          IF beta = 0 THEN Mul(Fin(alpha), MatVec(mat, vec, i))
          ELSE Add(Mul(Fin(beta), out.vals[i]),
                   Mul(Fin(alpha), MatVec(mat, vec, i)))]]
  ELSE [out EXCEPT !.vals = [i \in 1..Len(out.vals) |-> g]]

(***************************************************************************)
(* addmv_out_sparse_csr (lines 26-69).  `aliased` is &result == &self, in  *)
(* which case result and self are one tensor.                              *)
(***************************************************************************)
\* lines 35-38: the two TORCH_CHECKs and the broadcast of self
addmv_checks(self, mat, vec) ==
  IF Dim(mat) # 2 THEN "addmv: Expected mat to be 2-D"
  ELSE IF Dim(vec) # 1 THEN "addmv: Expected vec to be 1-D"
  ELSE IF ~is_expandable_to(self.sizes, <<mat.sizes[1]>>)
       THEN "expand: the expanded size must match the existing size"
  ELSE "ok"

\* lines 41-46: a result that is not self is resized to the broadcast
\* shape, and takes self's elements only when beta is not 0
addmv_prepare_result(self_, betaval, result, aliased, g) ==
  IF ~aliased
  THEN LET resized == resize_output(result, self_.sizes, g)
       IN IF betaval # 0
          THEN [result |-> copy_(resized, self_),
                calls |-> <<[fn |-> "resize_output"], [fn |-> "copy_"]>>]
          ELSE [result |-> resized, calls |-> <<[fn |-> "resize_output"]>>]
  ELSE [result |-> result, calls |-> <<>>]

\* addmv_empty_mat that leaves the scaling by beta out
addmv_empty_mat_unscaled(self, beta, betaval, result) ==
  IF betaval = 0
  THEN [result |-> zero_(result), calls |-> <<[fn |-> "zero_"]>>]
  ELSE [result |-> result, calls |-> <<>>]

\* addmv_empty_mat without the beta = 0 branch: always self * beta
addmv_empty_mat_always_scales(self, beta, betaval, result) ==
  [result |-> mul_out(result, self, scalar_tensor(beta, self.dtype, "cpu")),
   calls |-> <<[fn |-> "scalar_tensor"], [fn |-> "mul_out"]>>]

\* lines 48-65: the shortcut for a mat without stored entries
addmv_empty_mat(self, beta, betaval, result) ==
  IF betaval = 0
  THEN [result |-> zero_(result), calls |-> <<[fn |-> "zero_"]>>]
  ELSE [result |-> mul_out(result, self,
                           scalar_tensor(beta, self.dtype, "cpu")),
        calls |-> <<[fn |-> "scalar_tensor"], [fn |-> "mul_out"]>>]

\* line 67: the delegation to the backend kernel
addmv_dispatch(mat, vec, beta, alpha, result, g) ==
  [result |-> impl_cpu_addmv_out_sparse_csr(mat, vec, beta, alpha, result, g),
   calls |-> <<[fn |-> "sparse::impl::cpu::addmv_out_sparse_csr",
                mat |-> mat, vec |-> vec, beta |-> beta, alpha |-> alpha,
                result |-> result]>>]

addmv_out_sparse_csr(self, mat, vec, beta, alpha, result, aliased, g) ==
  LET err == addmv_checks(self, mat, vec)
  IN IF err # "ok"
     THEN [status |-> err, self |-> self, result |-> result, calls |-> <<>>]
     ELSE
       LET self_ == expand_size(self, <<mat.sizes[1]>>)
           betaval == beta
           prep == addmv_prepare_result(self_, betaval, result, aliased, g)
           \* self as line 57 reads it: the tensor result is, when aliased
           selfNow == IF aliased THEN prep.result ELSE self
           out == IF nnz(mat) = 0
                  THEN addmv_empty_mat(selfNow, beta, betaval, prep.result)
                  ELSE addmv_dispatch(mat, vec, beta, alpha, prep.result, g)
       IN [status |-> "ok",
           self |-> IF aliased THEN out.result ELSE self,
           result |-> out.result,
           calls |-> prep.calls \o out.calls]

(***************************************************************************)
(* triangular_solve_out_sparse_csr_cpu (lines 84-94).                      *)
(***************************************************************************)
\* The backend kernel sparse::impl::cpu::triangular_solve_out_sparse_csr:
\* X <- the solution of op(A) X = B.  The arithmetic is the backend's; the
\* model keeps, in each element of X, the system it is the solution of.
impl_cpu_triangular_solve_out_sparse_csr(A, B, X, upper, transpose, unitriangular) ==
  [X EXCEPT !.sizes = B.sizes,
            !.vals = [q \in 1..Numel(B.sizes) |->
                        [k |-> "solution", n |-> q,
                         sys |-> <<A, B, upper, transpose, unitriangular>>]]]

\* triangular_solve_dispatch with upper and transpose in each other's place
triangular_solve_dispatch_flags_swapped(B, A, upper, transpose, unitriangular, X) ==
  [X |-> impl_cpu_triangular_solve_out_sparse_csr(A, B, X, transpose, upper,
                                                  unitriangular),
   calls |-> <<[fn |-> "sparse::impl::cpu::triangular_solve_out_sparse_csr",
                A |-> A, B |-> B, X |-> X, upper |-> transpose,
                transpose |-> upper, unitriangular |-> unitriangular]>>]

\* line 92: the only statement before the return
triangular_solve_dispatch(B, A, upper, transpose, unitriangular, X) ==
  [X |-> impl_cpu_triangular_solve_out_sparse_csr(A, B, X, upper, transpose,
                                                  unitriangular),
   calls |-> <<[fn |-> "sparse::impl::cpu::triangular_solve_out_sparse_csr",
                A |-> A, B |-> B, X |-> X, upper |-> upper,
                transpose |-> transpose, unitriangular |-> unitriangular]>>]

\* `XisB` is &X == &B: the solve is done in place of the right-hand side
triangular_solve_out_sparse_csr_cpu(B, A, upper, transpose, unitriangular, X, clone_A, XisB) ==
  LET out == triangular_solve_dispatch(B, A, upper, transpose, unitriangular, X)
  IN [status |-> "ok",
      X |-> out.X,
      clone_A |-> clone_A,
      B |-> IF XisB THEN out.X ELSE B,
      ret |-> <<"X", "clone_A">>,
      calls |-> out.calls]

(***************************************************************************)
(* ATen primitives of sampled_addmm.                                       *)
(***************************************************************************)
\* the value a CSR matrix holds at (i, j): the stored one, or 0
StoredAt(t, i, j) ==
  LET qs == {q \in (t.crow[i] + 1)..t.crow[i + 1] : t.col[q] = j}
  IN IF qs = {} THEN Fin(0) ELSE t.vals[CHOOSE q \in qs : TRUE]

\* to_dense: the strided matrix of a CSR matrix
to_dense(t) ==
  Dense(t.dtype, t.device, t.sizes,
        [q \in 1..Numel(t.sizes) |->
           StoredAt(t, ((q - 1) \div t.sizes[2]) + 1, ((q - 1) % t.sizes[2]) + 1)])

\* addmm(input, mat1, mat2, beta, alpha) = beta * input + alpha * (mat1 @ mat2)
addmm(input, mat1, mat2, beta, alpha) ==
  LET n == mat2.sizes[2]
      dot(i, j) == SumSeq([x \in 1..mat1.sizes[2] |-> Mul(At(mat1, i, x), At(mat2, x, j))])
  IN Dense(input.dtype, input.device, <<mat1.sizes[1], n>>,
           [q \in 1..(mat1.sizes[1] * n) |->
              Add(Mul(Fin(beta), input.vals[q]),
                  Mul(Fin(alpha), dot(((q - 1) \div n) + 1, ((q - 1) % n) + 1)))])

\* sparse_mask: the elements of a strided matrix at the stored coordinates
\* of mask, as a CSR matrix with mask's row offsets and columns
sparse_mask(t, mask) ==
  Csr(t.dtype, t.device, mask.sizes, mask.crow, mask.col,
      [q \in 1..Len(mask.col) |-> At(t, RowOf(mask, q), mask.col[q])])

\* resize_as_sparse_csr_: the structural copy; t takes src's sizes, row
\* offsets and columns, and a fresh (uninitialised) values buffer
resize_as_sparse_csr_(t, src, g) ==
  [t EXCEPT !.sizes = src.sizes, !.crow = src.crow, !.col = src.col,
            !.vals = [q \in 1..Len(src.col) |-> g]]

\* copy_ into a CSR tensor of src's structure: the elementwise copy
copy_sparse_csr_(t, src) == [t EXCEPT !.vals = src.vals]

\* at::empty({0, 0}, options) for CSR options
empty_sparse_csr(dtype, device) == Csr(dtype, device, <<0, 0>>, <<0>>, <<>>, <<>>)

(***************************************************************************)
(* sparse_sampled_addmm_out_sparse_csr_cpu (lines 105-156) and the         *)
(* allocating sparse_sampled_addmm_sparse_csr_cpu (lines 158-167).         *)
(***************************************************************************)
\* sampled_addmm_checks without the check of line 119 (mat1 against mat2)
sampled_addmm_checks_no_mat2_dtype(self, mat1, mat2, result) ==
  IF mat1.layout # "Strided"
    THEN "sampled_addmm: Expected mat1 to have strided layout"
  ELSE IF mat2.layout # "Strided"
    THEN "sampled_addmm: Expected mat2 to have strided layout"
  ELSE IF result.layout # "SparseCsr"
    THEN "sampled_addmm: Expected result to have sparse csr layout"
  ELSE IF mat1.dtype # self.dtype
    THEN "sampled_addmm: Expected mat1 and self to have the same dtype"
  ELSE IF result.dtype # self.dtype
    THEN "sampled_addmm: Expected result and self to have the same dtype"
  ELSE IF Dim(mat1) # 2 THEN "sampled_addmm: Expected mat1 to be a matrix"
  ELSE IF Dim(mat2) # 2 THEN "sampled_addmm: Expected mat2 to be a matrix"
  ELSE IF Dim(result) # 2 THEN "sampled_addmm: Expected result to be a matrix"
  ELSE IF mat1.sizes[2] # mat2.sizes[1]
    THEN "sampled_addmm: mat1 and mat2 shapes cannot be multiplied"
  ELSE IF self.sizes[1] # mat1.sizes[1]
    THEN "sampled_addmm: self dim 0 must match mat1 dim 0"
  ELSE IF self.sizes[2] # mat2.sizes[2]
    THEN "sampled_addmm: self dim 1 must match mat2 dim 1"
  ELSE "ok"

\* lines 114-148: the TORCH_CHECKs, in their order
sampled_addmm_checks(self, mat1, mat2, result) ==
  IF mat1.layout # "Strided"
    THEN "sampled_addmm: Expected mat1 to have strided layout"
  ELSE IF mat2.layout # "Strided"
    THEN "sampled_addmm: Expected mat2 to have strided layout"
  ELSE IF result.layout # "SparseCsr"
    THEN "sampled_addmm: Expected result to have sparse csr layout"
  ELSE IF mat1.dtype # mat2.dtype
    THEN "sampled_addmm: Expected mat1 and mat2 to have the same dtype"
  ELSE IF mat1.dtype # self.dtype
    THEN "sampled_addmm: Expected mat1 and self to have the same dtype"
  ELSE IF result.dtype # self.dtype
    THEN "sampled_addmm: Expected result and self to have the same dtype"
  ELSE IF Dim(mat1) # 2 THEN "sampled_addmm: Expected mat1 to be a matrix"
  ELSE IF Dim(mat2) # 2 THEN "sampled_addmm: Expected mat2 to be a matrix"
  ELSE IF Dim(result) # 2 THEN "sampled_addmm: Expected result to be a matrix"
  ELSE IF mat1.sizes[2] # mat2.sizes[1]
    THEN "sampled_addmm: mat1 and mat2 shapes cannot be multiplied"
  ELSE IF self.sizes[1] # mat1.sizes[1]
    THEN "sampled_addmm: self dim 0 must match mat1 dim 0"
  ELSE IF self.sizes[2] # mat2.sizes[2]
    THEN "sampled_addmm: self dim 1 must match mat2 dim 1"
  ELSE "ok"

\* sampled_addmm_prepare_result without the structural resize
sampled_addmm_prepare_result_no_resize(self, result, aliased, g) ==
  [result |-> result, calls |-> <<>>]

\* lines 150-152: a result that is not self takes self's structure
sampled_addmm_prepare_result(self, result, aliased, g) ==
  IF ~aliased
  THEN [result |-> resize_as_sparse_csr_(result, self, g),
        calls |-> <<[fn |-> "resize_as_sparse_csr_"]>>]
  ELSE [result |-> result, calls |-> <<>>]

\* sampled_addmm_masked with beta and alpha in each other's place
sampled_addmm_masked_scalars_swapped(self, mat1, mat2, beta, alpha) ==
  sparse_mask(addmm(to_dense(self), mat1, mat2, alpha, beta), self)

\* line 154, the right-hand side: the dense accumulate, masked by self
sampled_addmm_masked(self, mat1, mat2, beta, alpha) ==
  sparse_mask(addmm(to_dense(self), mat1, mat2, beta, alpha), self)

sparse_sampled_addmm_out_sparse_csr_cpu(self, mat1, mat2, beta, alpha, result, aliased, g) ==
  LET err == sampled_addmm_checks(self, mat1, mat2, result)
  IN IF err # "ok"
     THEN [status |-> err, self |-> self, result |-> result, calls |-> <<>>]
     ELSE
       LET prep == sampled_addmm_prepare_result(self, result, aliased, g)
           selfNow == IF aliased THEN prep.result ELSE self
           out == copy_sparse_csr_(prep.result,
                    sampled_addmm_masked(selfNow, mat1, mat2, beta, alpha))
       IN [status |-> "ok",
           self |-> IF aliased THEN out ELSE self,
           result |-> out,
           calls |-> prep.calls \o
                     <<[fn |-> "to_dense"], [fn |-> "addmm"], [fn |-> "sparse_mask"],
                       [fn |-> "copy_"]>>]

sparse_sampled_addmm_sparse_csr_cpu(self, mat1, mat2, beta, alpha, g) ==
  LET result == empty_sparse_csr(self.dtype, self.device)
      r == sparse_sampled_addmm_out_sparse_csr_cpu(self, mat1, mat2, beta, alpha,
                                                   result, FALSE, g)
  IN [r EXCEPT !.calls = <<[fn |-> "empty"]>> \o r.calls]

(***************************************************************************)
(* The arguments the calls are made with.                                  *)
(***************************************************************************)
PatternKinds == {"empty", "diag", "full", "lower", "lastrow"}
FillKinds == {"ones", "iota"}

InPattern(kind, i, j, m) ==
  CASE kind = "empty" -> FALSE
    [] kind = "diag" -> i = j
    [] kind = "full" -> TRUE
    [] kind = "lower" -> j <= i
    [] kind = "lastrow" -> i = m

FillVal(fill, i, j, n) == IF fill = "ones" THEN 1 ELSE (i - 1) * n + j

\* the stored coordinates of rows 1..i, row by row, columns ascending
RECURSIVE Cells(_, _, _, _)
Cells(kind, i, m, n) ==
  IF i = 0 THEN <<>>
  ELSE LET cs == SortedSeq({j \in 1..n : InPattern(kind, i, j, m)})
       IN Cells(kind, i - 1, m, n) \o [q \in 1..Len(cs) |-> <<i, cs[q]>>]

\* a well-formed m x n CSR matrix: sorted columns, crow[m + 1] = nnz
MakeCsr(m, n, kind, fill) ==
  LET cells == Cells(kind, m, m, n)
  IN Csr("Double", "cpu", <<m, n>>,
         [r \in 1..(m + 1) |-> Len(Cells(kind, r - 1, m, n))],
         [q \in 1..Len(cells) |-> cells[q][2]],
         [q \in 1..Len(cells) |-> Fin(FillVal(fill, cells[q][1], cells[q][2], n))])

CsrMats == {MakeCsr(m, n, kind, fill) :
              m \in 1..MaxDim, n \in 1..MaxDim, kind \in PatternKinds, fill \in FillKinds}

MakeDense(sizes, fill) ==
  Dense("Double", "cpu", sizes,
        [q \in 1..Numel(sizes) |-> Fin(IF fill = "ones" THEN 1 ELSE q)])

\* self of addmv: finite values, or a NaN or an Inf among them
SelfFills == {"ones", "iota", "nan", "inf"}

MakeSelf(sizes, fill) ==
  Dense("Double", "cpu", sizes,
        [q \in 1..Numel(sizes) |->
           CASE fill = "ones" -> Fin(1)
             [] fill = "iota" -> Fin(q)
             [] fill = "nan" -> IF q = 1 THEN NaN ELSE Fin(q)
             [] fill = "inf" -> IF q = Numel(sizes) THEN Inf ELSE Fin(q)])

Selfs == {MakeSelf(sizes, fill) :
            sizes \in {<<>>} \cup {<<n>> : n \in 1..MaxDim}, fill \in SelfFills}

\* what uninitialised memory may hold
GarbageVals == {NaN, Fin(7)}

\* an output that is not self: an empty tensor, or one holding stale NaNs
StaleResults ==
  {Dense("Double", "cpu", <<0>>, <<>>),
   Dense("Double", "cpu", <<MaxDim>>, [q \in 1..MaxDim |-> NaN])}

\* an output whose dtype or device is not mat's
ForeignResults ==
  {Dense("Long", "cpu", <<0>>, <<>>), Dense("Double", "cuda", <<0>>, <<>>)}

AddmvArgs(self, mat, vec, beta, alpha, result, aliased) ==
  [self |-> self, mat |-> mat, vec |-> vec, beta |-> beta, alpha |-> alpha,
   result |-> result, aliased |-> aliased]

\* the output of a call: self itself, or another tensor
ResultChoices(self) ==
  {[result |-> self, aliased |-> TRUE]}
  \cup {[result |-> x, aliased |-> FALSE] : x \in StaleResults}

\* calls with a 2-D mat and a 1-D vec of mat's column count
AddmvWellFormed(a) ==
  \E self \in Selfs, mat \in CsrMats, vfill \in FillKinds,
     beta \in 0..MaxScalar, alpha \in 0..MaxScalar :
    \E r \in ResultChoices(self) :
      a = AddmvArgs(self, mat, MakeDense(<<mat.sizes[2]>>, vfill), beta, alpha,
                    r.result, r.aliased)

\* calls whose output has another dtype or device than mat; made on the
\* path this file decides alone (no stored entries, beta = 0)
AddmvForeign(a) ==
  \E self \in Selfs, mat \in {c \in CsrMats : nnz(c) = 0}, alpha \in 0..MaxScalar,
     r \in ForeignResults :
    a = AddmvArgs(self, mat, MakeDense(<<mat.sizes[2]>>, "ones"), 0, alpha, r, FALSE)

\* calls with a batched (3-D) mat or a vec that is not 1-D
AddmvMalformed(a) ==
  \E self \in Selfs, mat \in CsrMats, beta \in 0..1 :
    \E r \in ResultChoices(self) :
      \/ a = AddmvArgs(self, [mat EXCEPT !.sizes = <<1>> \o mat.sizes],
                       MakeDense(<<mat.sizes[2]>>, "ones"), beta, 1, r.result, r.aliased)
      \/ \E vsizes \in {<<>>, <<mat.sizes[2], 1>>} :
           a = AddmvArgs(self, mat, MakeDense(vsizes, "ones"), beta, 1,
                         r.result, r.aliased)

\* an output of sampled_addmm that is not self: the 0 x 0 tensor, or one
\* with a structure of its own
StaleSparseResults ==
  {empty_sparse_csr("Double", "cpu"), MakeCsr(MaxDim, MaxDim, "lower", "ones")}

SparseResultChoices(self) ==
  {[result |-> self, aliased |-> TRUE]}
  \cup {[result |-> x, aliased |-> FALSE] : x \in StaleSparseResults}

SampledArgs(self, mat1, mat2, beta, alpha, result, aliased) ==
  [self |-> self, mat1 |-> mat1, mat2 |-> mat2, beta |-> beta, alpha |-> alpha,
   result |-> result, aliased |-> aliased]

\* calls whose operands satisfy every precondition
SampledWellFormed(a) ==
  \E self \in CsrMats, x \in 1..MaxDim, f1 \in FillKinds, f2 \in FillKinds,
     beta \in 0..MaxScalar, alpha \in 0..MaxScalar :
    \E r \in SparseResultChoices(self) :
      a = SampledArgs(self, MakeDense(<<self.sizes[1], x>>, f1),
                      MakeDense(<<x, self.sizes[2]>>, f2), beta, alpha,
                      r.result, r.aliased)

\* the ways an operand can break a precondition of lines 114-148
Defects == {"mat1 layout", "mat2 layout", "result layout", "mat2 dtype",
            "mat1 and mat2 dtype", "result dtype", "mat1 dim", "mat2 dim",
            "result dim"}

Spoil(a, defect) ==
  CASE defect = "mat1 layout" -> [a EXCEPT !.mat1.layout = "SparseCsr"]
    [] defect = "mat2 layout" -> [a EXCEPT !.mat2.layout = "SparseCsr"]
    [] defect = "result layout" ->
         [a EXCEPT !.result = MakeDense(<<MaxDim, MaxDim>>, "iota"), !.aliased = FALSE]
    [] defect = "mat2 dtype" -> [a EXCEPT !.mat2.dtype = "Long"]
    [] defect = "mat1 and mat2 dtype" ->
         [a EXCEPT !.mat1.dtype = "Long", !.mat2.dtype = "Long"]
    [] defect = "result dtype" ->
         [a EXCEPT !.result = [MakeCsr(MaxDim, MaxDim, "lower", "ones")
                                 EXCEPT !.dtype = "Long"],
                   !.aliased = FALSE]
    [] defect = "mat1 dim" -> [a EXCEPT !.mat1.sizes = <<1>> \o @]
    [] defect = "mat2 dim" -> [a EXCEPT !.mat2 = MakeDense(<<a.mat2.sizes[1]>>, "ones")]
    [] defect = "result dim" ->
         [a EXCEPT !.result = [MakeCsr(MaxDim, MaxDim, "lower", "ones")
                                 EXCEPT !.sizes = <<1>> \o @],
                   !.aliased = FALSE]

\* calls that break a precondition: a defective operand, or shapes that do
\* not fit (mat1 is m1 x k1, mat2 is k2 x n2, self is any CSR matrix)
SampledMalformed(a) ==
  \/ \E self \in CsrMats, x \in 1..MaxDim, defect \in Defects :
       \E r \in SparseResultChoices(self) :
         a = Spoil(SampledArgs(self, MakeDense(<<self.sizes[1], x>>, "iota"),
                               MakeDense(<<x, self.sizes[2]>>, "iota"), 1, 1,
                               r.result, r.aliased), defect)
  \/ \E self \in CsrMats, m1 \in 1..MaxDim, k1 \in 1..MaxDim, k2 \in 1..MaxDim,
        n2 \in 1..MaxDim :
       \E r \in SparseResultChoices(self) :
         /\ (k1 # k2 \/ m1 # self.sizes[1] \/ n2 # self.sizes[2])
         /\ a = SampledArgs(self, MakeDense(<<m1, k1>>, "iota"),
                            MakeDense(<<k2, n2>>, "iota"), 1, 1, r.result, r.aliased)

\* the calls of the allocating variant
SampledAlloc(a) ==
  \E self \in CsrMats, x \in 1..MaxDim, f1 \in FillKinds, f2 \in FillKinds,
     beta \in 0..MaxScalar, alpha \in 0..MaxScalar :
    a = [self |-> self, mat1 |-> MakeDense(<<self.sizes[1], x>>, f1),
         mat2 |-> MakeDense(<<x, self.sizes[2]>>, f2), beta |-> beta, alpha |-> alpha]

\* the calls of triangular_solve: A is square, B has A's row count, X is B
\* itself or another tensor, clone_A is a tensor of its own
TriangularArgs(a) ==
  \E A \in {c \in CsrMats : c.sizes[1] = c.sizes[2]}, nrhs \in 1..MaxDim,
     bfill \in FillKinds, upper \in BOOLEAN, transpose \in BOOLEAN,
     unitriangular \in BOOLEAN, XisB \in BOOLEAN,
     clone_A \in {MakeDense(<<0>>, "ones"), MakeDense(<<MaxDim, MaxDim>>, "iota")} :
    LET B == MakeDense(<<A.sizes[1], nrhs>>, bfill)
    IN a = [B |-> B, A |-> A, upper |-> upper, transpose |-> transpose,
            unitriangular |-> unitriangular,
            X |-> IF XisB THEN B ELSE MakeDense(<<0, 0>>, "ones"),
            clone_A |-> clone_A, XisB |-> XisB]

(***************************************************************************)
(* The state machine: a call is chosen, then made.                         *)
(***************************************************************************)
Init ==
  /\ pc = "call"
  /\ status = "pending"
  /\ calls = <<>>
  /\ \/ /\ op = "addmv"
        /\ AddmvWellFormed(args) \/ AddmvForeign(args) \/ AddmvMalformed(args)
        /\ mem = [self |-> args.self, result |-> args.result, ret |-> <<>>]
     \/ /\ op = "triangular_solve"
        /\ TriangularArgs(args)
        /\ mem = [X |-> args.X, clone_A |-> args.clone_A, B |-> args.B, ret |-> <<>>]
     \/ /\ op = "sampled_addmm_out"
        /\ SampledWellFormed(args) \/ SampledMalformed(args)
        /\ mem = [self |-> args.self, result |-> args.result, ret |-> <<>>]
     \/ /\ op = "sampled_addmm"
        /\ SampledAlloc(args)
        /\ mem = [self |-> args.self, ret |-> <<>>]

\* addmv_out_sparse_csr(self, mat, vec, beta, alpha, result)
CallAddmv ==
  /\ pc = "call" /\ op = "addmv"
  /\ \E g \in GarbageVals :
       LET r == addmv_out_sparse_csr(args.self, args.mat, args.vec, args.beta,
                                     args.alpha, args.result, args.aliased, g)
       IN /\ mem' = [self |-> r.self, result |-> r.result,
                     ret |-> IF r.status = "ok" THEN <<"result">> ELSE <<>>]
          /\ status' = r.status
          /\ calls' = r.calls
  /\ pc' = "done"
  /\ UNCHANGED <<op, args>>

\* triangular_solve_out_sparse_csr_cpu(B, A, upper, transpose, unitriangular, X, clone_A)
CallTriangularSolve ==
  /\ pc = "call" /\ op = "triangular_solve"
  /\ LET r == triangular_solve_out_sparse_csr_cpu(
                args.B, args.A, args.upper, args.transpose, args.unitriangular,
                args.X, args.clone_A, args.XisB)
     IN /\ mem' = [X |-> r.X, clone_A |-> r.clone_A, B |-> r.B, ret |-> r.ret]
        /\ status' = r.status
        /\ calls' = r.calls
  /\ pc' = "done"
  /\ UNCHANGED <<op, args>>

\* sparse_sampled_addmm_out_sparse_csr_cpu(self, mat1, mat2, beta, alpha, result)
CallSampledAddmmOut ==
  /\ pc = "call" /\ op = "sampled_addmm_out"
  /\ \E g \in GarbageVals :
       LET r == sparse_sampled_addmm_out_sparse_csr_cpu(
                  args.self, args.mat1, args.mat2, args.beta, args.alpha,
                  args.result, args.aliased, g)
       IN /\ mem' = [self |-> r.self, result |-> r.result,
                     ret |-> IF r.status = "ok" THEN <<"result">> ELSE <<>>]
          /\ status' = r.status
          /\ calls' = r.calls
  /\ pc' = "done"
  /\ UNCHANGED <<op, args>>

\* sparse_sampled_addmm_sparse_csr_cpu(self, mat1, mat2, beta, alpha)
CallSampledAddmm ==
  /\ pc = "call" /\ op = "sampled_addmm"
  /\ \E g \in GarbageVals :
       LET r == sparse_sampled_addmm_sparse_csr_cpu(
                  args.self, args.mat1, args.mat2, args.beta, args.alpha, g)
       IN /\ mem' = [self |-> r.self, result |-> r.result,
                     ret |-> IF r.status = "ok" THEN <<"result">> ELSE <<>>]
          /\ status' = r.status
          /\ calls' = r.calls
  /\ pc' = "done"
  /\ UNCHANGED <<op, args>>

Next ==
  \/ CallAddmv
  \/ CallTriangularSolve
  \/ CallSampledAddmmOut
  \/ CallSampledAddmm

Spec == Init /\ [][Next]_vars

(***************************************************************************)
(* The properties.                                                         *)
(***************************************************************************)
Returned(o) == pc = "done" /\ op = o /\ status = "ok"

KernelCalls ==
  {i \in 1..Len(calls) : calls[i].fn = "sparse::impl::cpu::addmv_out_sparse_csr"}

\* self[i] of a self broadcast to a longer vector
Broadcast(t, i) == IF Len(t.vals) = 1 THEN t.vals[1] ELSE t.vals[i]

\* (mat1 @ mat2)[i, j]
ProductAt(mat1, mat2, i, j) ==
  SumSeq([x \in 1..mat1.sizes[2] |->
            Mul(mat1.vals[(i - 1) * mat1.sizes[2] + x],
                mat2.vals[(x - 1) * mat2.sizes[2] + j])])

\* C1: addmv with beta = 0 returns exactly alpha * (mat @ vec), a vector of
\* mat's row count, whatever self and the output held and whether or not
\* the output is self.
C1_BetaZeroIsAlphaMatVec ==
  (Returned("addmv") /\ args.beta = 0) =>
    /\ mem.result.sizes = <<args.mat.sizes[1]>>
    /\ \A i \in 1..args.mat.sizes[1] :
         mem.result.vals[i] = Mul(Fin(args.alpha), MatVec(args.mat, args.vec, i))

\* C2: addmv with a mat without stored entries and beta # 0 leaves, in
\* every element of the result, beta times the element of self, for every
\* alpha and vec, and never invokes the backend kernel.
C2_EmptyMatScalesSelf ==
  (Returned("addmv") /\ nnz(args.mat) = 0 /\ args.beta # 0) =>
    /\ Len(mem.result.vals) >= 1
    /\ \A i \in 1..Len(mem.result.vals) :
         mem.result.vals[i] = Mul(Fin(args.beta), Broadcast(args.self, i))
    /\ KernelCalls = {}

C2_Witness ==
  /\ Returned("addmv") /\ nnz(args.mat) = 0 /\ args.beta = 2 /\ ~args.aliased
  /\ args.self.vals = <<Fin(1), Fin(2)>>
  /\ mem.result.vals = <<Fin(2), Fin(4)>>

\* C3: addmv with a mat without stored entries and beta = 0 leaves 0 in
\* every element of the result, whatever self, the output, vec and alpha
\* held, and does not invoke the backend kernel.
C3_EmptyMatBetaZeroIsZero ==
  (Returned("addmv") /\ nnz(args.mat) = 0 /\ args.beta = 0) =>
    /\ Len(mem.result.vals) >= 1
    /\ \A i \in 1..Len(mem.result.vals) : mem.result.vals[i] = Fin(0)
    /\ KernelCalls = {}

C3_Witness ==
  /\ Returned("addmv") /\ nnz(args.mat) = 0 /\ args.beta = 0 /\ args.aliased
  /\ \E i \in 1..Len(args.self.vals) : args.self.vals[i] \in {NaN, Inf}
  /\ \A i \in 1..Len(mem.result.vals) : mem.result.vals[i] = Fin(0)

\* C4: addmv with the output being self gives the result that the same
\* call gives with another output tensor and a self of the same contents.
C4_AliasSafe ==
  (Returned("addmv") /\ args.aliased) =>
    \A r \in StaleResults, g \in GarbageVals :
      LET d == addmv_out_sparse_csr(args.self, args.mat, args.vec, args.beta,
                                    args.alpha, r, FALSE, g)
      IN /\ d.status = "ok"
         /\ d.result.sizes = mem.result.sizes
         /\ d.result.vals = mem.result.vals

\* C5: whenever addmv returns, the result has shape (m,), m the row count
\* of mat, for every self that broadcasts to (m,), aliased or not, on each
\* path; a self that does not broadcast to (m,) is rejected.
C5_ResultHasMatRows ==
  (pc = "done" /\ op = "addmv" /\ Dim(args.mat) = 2 /\ Dim(args.vec) = 1) =>
    IF Len(args.self.sizes) = 0
       \/ (Len(args.self.sizes) = 1 /\ args.self.sizes[1] \in {1, args.mat.sizes[1]})
    THEN status = "ok" /\ mem.result.sizes = <<args.mat.sizes[1]>>
    ELSE status # "ok"

\* C6: whenever sampled_addmm returns, the result has the row offsets and
\* the columns of self, for an output that is self as for any other output
\* (the 0 x 0 tensor of the allocating variant among them), and the pattern
\* of self is what it was.
C6_ResultHasSelfPattern ==
  (Returned("sampled_addmm_out") \/ Returned("sampled_addmm")) =>
    /\ mem.result.sizes = args.self.sizes
    /\ mem.result.crow = args.self.crow
    /\ mem.result.col = args.self.col
    /\ mem.self.crow = args.self.crow
    /\ mem.self.col = args.self.col

C6_Witness ==
  /\ Returned("sampled_addmm_out") /\ ~args.aliased
  /\ args.result.col # args.self.col
  /\ nnz(args.self) > 0
  /\ mem.result.col = args.self.col /\ mem.result.crow = args.self.crow

\* C7: whenever sampled_addmm returns, the result stores, at each stored
\* coordinate (i, j) of self, alpha * (mat1 @ mat2)[i, j] + beta * self[i, j]
\* with self's value from before the call, and stores nothing elsewhere.
C7_ValuesAtSelfPattern ==
  (Returned("sampled_addmm_out") \/ Returned("sampled_addmm")) =>
    /\ Len(mem.result.vals) = Len(args.self.col)
    /\ Len(mem.result.col) = Len(args.self.col)
    /\ Coords(mem.result) = Coords(args.self)
    /\ \A q \in 1..Len(args.self.col) :
         mem.result.vals[q] =
           Add(Mul(Fin(args.alpha),
                   ProductAt(args.mat1, args.mat2, RowOf(args.self, q), args.self.col[q])),
               Mul(Fin(args.beta), args.self.vals[q]))

C7_Witness ==
  /\ Returned("sampled_addmm_out") /\ args.aliased
  /\ args.self.sizes = <<2, 2>> /\ args.self.col = <<1, 2>>
  /\ args.self.vals = <<Fin(1), Fin(1)>>
  /\ args.mat1.vals = <<Fin(1), Fin(1), Fin(1), Fin(1)>>
  /\ args.mat2.vals = <<Fin(1), Fin(1), Fin(1), Fin(1)>>
  /\ args.beta = 1 /\ args.alpha = 1
  /\ mem.result.vals = <<Fin(3), Fin(3)>> /\ mem.result.col = <<1, 2>>

\* the user-facing preconditions of addmv, on the arguments
AddmvViolates(a) ==
  \/ Len(a.mat.sizes) # 2
  \/ Len(a.vec.sizes) # 1
  \/ Len(a.self.sizes) > 1
  \/ Len(a.self.sizes) = 1 /\ a.self.sizes[1] \notin {1, a.mat.sizes[1]}

\* the user-facing preconditions of sampled_addmm, on the arguments
SampledViolates(a) ==
  \/ a.mat1.layout # "Strided" \/ a.mat2.layout # "Strided"
  \/ a.result.layout # "SparseCsr"
  \/ a.mat1.dtype # a.mat2.dtype \/ a.mat1.dtype # a.self.dtype
  \/ a.result.dtype # a.self.dtype
  \/ Len(a.mat1.sizes) # 2 \/ Len(a.mat2.sizes) # 2 \/ Len(a.result.sizes) # 2
  \/ /\ Len(a.mat1.sizes) = 2 /\ Len(a.mat2.sizes) = 2
     /\ \/ a.mat1.sizes[2] # a.mat2.sizes[1]
        \/ a.self.sizes[1] # a.mat1.sizes[1]
        \/ a.self.sizes[2] # a.mat2.sizes[2]

\* C8: a call of addmv or sampled_addmm that breaks a user-facing
\* precondition fails, and fails before anything is written: the output
\* and self are what they were, and no primitive or kernel has been invoked.
C8_ValidationBeforeMutation ==
  (pc = "done" /\ (\/ op = "addmv" /\ AddmvViolates(args)
                   \/ op = "sampled_addmm_out" /\ SampledViolates(args))) =>
    /\ status # "ok"
    /\ mem.result = args.result
    /\ mem.self = args.self
    /\ calls = <<>>

C8_Witness ==
  /\ pc = "done" /\ op = "sampled_addmm_out" /\ ~args.aliased
  /\ args.mat1.dtype # args.mat2.dtype
  /\ status = "sampled_addmm: Expected mat1 and mat2 to have the same dtype"
  /\ mem.result = args.result /\ calls = <<>>

\* C9: whenever one of the three operations returns, the dtype and the
\* device of its output are those of its anchor input (mat for addmv, self
\* for sampled_addmm, the matrix of the system for triangular_solve).
C9_OutputMatchesAnchor ==
  /\ Returned("addmv") =>
       mem.result.dtype = args.mat.dtype /\ mem.result.device = args.mat.device
  /\ (Returned("sampled_addmm_out") \/ Returned("sampled_addmm")) =>
       mem.result.dtype = args.self.dtype /\ mem.result.device = args.self.device
  /\ Returned("triangular_solve") =>
       mem.X.dtype = args.A.dtype /\ mem.X.device = args.A.device

\* C10: triangular_solve, for every B, A and flags (an A without stored
\* entries included), invokes the backend kernel exactly once with A, B, X
\* and the three flags in their own roles, validates and shortcuts nothing,
\* leaves clone_A as it was and returns the pair (X, clone_A).
C10_TriangularSolveDelegates ==
  (pc = "done" /\ op = "triangular_solve") =>
    /\ status = "ok"
    /\ calls = <<[fn |-> "sparse::impl::cpu::triangular_solve_out_sparse_csr",
                  A |-> args.A, B |-> args.B, X |-> args.X, upper |-> args.upper,
                  transpose |-> args.transpose,
                  unitriangular |-> args.unitriangular]>>
    /\ mem.clone_A = args.clone_A
    /\ mem.ret = <<"X", "clone_A">>

C10_Witness ==
  /\ pc = "done" /\ op = "triangular_solve"
  /\ nnz(args.A) = 0 /\ args.upper /\ ~args.transpose /\ ~args.unitriangular
  /\ Len(calls) = 1 /\ calls[1].upper /\ ~calls[1].transpose
  /\ mem.clone_A = args.clone_A

====
